---- MODULE Spec2Model ----
(***************************************************************************)
(* A task queue on a relational store: the repository (create_task,        *)
(* show_task, next_worker_task, complete_task), the worker loop that polls *)
(* it and the status derived from a task's timestamps.                     *)
(*                                                                         *)
(* The store runs at READ COMMITTED: a statement sees the rows committed   *)
(* when it starts, SELECT .. FOR UPDATE waits for a row another            *)
(* transaction holds and then re-evaluates its WHERE clause on the row as  *)
(* committed, and now() is the transaction's start time.                   *)
(***************************************************************************)
EXTENDS Integers, FiniteSets, Sequences, TLC

\* Bounds of the model.
MaxTasks == 2
MaxTime == 2
NumWorkers == 2

TaskIds == 1 .. MaxTasks
Times == 0 .. MaxTime
Workers == 1 .. NumWorkers

\* The start_at instants a caller passes: those the clock can pass.
StartTimes == 0 .. MaxTime - 1

\* Task types a caller may pass: one whose handler succeeds, one whose handler
\* fails and one with no handler. ("bar" adds no behaviour of its own: its handler
\* returns true as foo's does, or panics, which ends the spawned task with no
\* complete_task call, as a false does.)
TaskTypes == {"foo", "baz", "qux"}
\* UTC offsets (hours) of a caller's start_at.
Offsets == {0, 1}

\* An unset timestamp (SQL NULL, Rust None) and the absence of a task.
NULL == -1
NoTask == 0

VARIABLES
    now,         \* the clock
    tasks,       \* the tasks table as committed: id -> row
    rowLock,     \* id -> the worker whose open transaction holds the row lock, or 0
    pc,          \* worker -> its position in the loop / in next_worker_task
    tx,          \* worker -> its open transaction: start time, candidate, locked record
    result,      \* worker -> what its last next_worker_task call returned
    handlers,    \* the spawned handler tasks still running
    handed,      \* id -> how many next_worker_task calls returned it
    firstCompleteCall, \* id -> the time of the first complete_task call that updated the row
    lastCompleteCall, \* id -> the time of the latest complete_task call that updated the row
    statusCall,  \* one call of TaskStatus::from_timestamps: its inputs and its result
    createCall,  \* the last create_task call of a caller that keeps its outcome
    request      \* the last POST /tasks request and its response

\* The records of the create calls and requests.
api == <<createCall, request>>

vars == <<now, tasks, rowLock, pc, tx, result, handlers, handed, firstCompleteCall,
          lastCompleteCall, statusCall, api>>

\* The records of the complete_task calls.
calls == <<firstCompleteCall, lastCompleteCall>>

NoOne == 0
NoRecord == [id |-> NoTask, task_type |-> ""]
NoTx == [now |-> NULL, cand |-> NoTask, rec |-> NoRecord, updated |-> FALSE]
NoResult == [kind |-> "pending", id |-> NoTask, task_type |-> ""]
NoStatusCall == [start_at |-> 0, completed_at |-> NULL, now |-> 0, status |-> ""]
\* Option::None of a start_at, and no create call or request made yet.
None == [instant |-> NULL, offset |-> NULL]
NoCreateCall == [task_type |-> "", start_at |-> None, ret |-> [kind |-> "", id |-> NoTask]]
NoRequest == [task_type |-> "", start_at |-> None, passed |-> None, status |-> 0, id |-> NoTask]

----------------------------------------------------------------------------
\* from_timestamps comparing with <= : a task starting now counts as started.
from_timestamps_le(start_at, completed_at, t) ==
    IF completed_at /= NULL THEN "Completed"
    ELSE IF start_at <= t THEN "WaitingToStart"
    ELSE "WaitingToComplete"

\* from_timestamps with the two waiting statuses the other way round: a task
\* whose start_at is still ahead is WaitingToStart.
from_timestamps_swapped(start_at, completed_at, t) ==
    IF completed_at /= NULL THEN "Completed"
    ELSE IF start_at < t THEN "WaitingToComplete"
    ELSE "WaitingToStart"

\* TaskStatus::from_timestamps.
from_timestamps(start_at, completed_at, t) ==
    IF completed_at /= NULL THEN "Completed"
    ELSE IF start_at < t THEN "WaitingToStart"
    ELSE "WaitingToComplete"

\* Eligible without "worker_assigned_at IS NULL": a claimed task stays eligible.
Eligible_claimed(row, t) ==
    /\ row.start_at < t
    /\ row.completed_at = NULL

\* Eligible comparing with <= : a task starting now is eligible.
Eligible_le(row, t) ==
    /\ row.start_at <= t
    /\ row.completed_at = NULL
    /\ row.worker_assigned_at = NULL

\* The WHERE clause of next_worker_task, on a row, at the transaction's now().
Eligible(row, t) ==
    /\ row.start_at < t
    /\ row.completed_at = NULL
    /\ row.worker_assigned_at = NULL

\* The handler's bool for a task type: {TRUE} / {FALSE}; bar() unwraps the
\* HTTP result, so it returns true or panics ("panic": no value at all).
HandlerOutcomes(task_type) ==
    CASE task_type = "foo" -> {"true"}
      [] task_type = "bar" -> {"true", "panic"}
      [] task_type = "baz" -> {"false"}
      [] OTHER -> {"false"}

----------------------------------------------------------------------------
Init ==
    /\ now = 0
    /\ tasks = [i \in {} |-> 0]
    /\ rowLock = [i \in TaskIds |-> NoOne]
    /\ pc = [w \in Workers |-> "poll"]
    /\ tx = [w \in Workers |-> NoTx]
    /\ result = [w \in Workers |-> NoResult]
    /\ handlers = {}
    /\ handed = [i \in TaskIds |-> 0]
    /\ firstCompleteCall = [i \in TaskIds |-> NULL]
    /\ lastCompleteCall = [i \in TaskIds |-> NULL]
    /\ statusCall = NoStatusCall
    /\ createCall = NoCreateCall
    /\ request = NoRequest

\* The clock advances.
Tick ==
    /\ now < MaxTime
    /\ now' = now + 1
    /\ UNCHANGED <<tasks, rowLock, pc, tx, result, handlers, handed, calls, statusCall, api>>

----------------------------------------------------------------------------
\* The repository's single-statement operations. Each is a relation between
\* the table before, the table after, the arguments and the value returned
\* (ret); the callers' actions below draw the arguments and the value.

\* Repository::create_task(task_type, start_at): start_at is an instant with an
\* offset. The assertion panics on a non-UTC offset before the INSERT; the row
\* stores the date and time as read in start_at's own offset, and the store
\* assigns the id.
NewRow(task_type, start_at) ==
    [task_type |-> task_type, start_at |-> start_at.instant + start_at.offset,
     completed_at |-> NULL, worker_assigned_at |-> NULL]

Inserted(id, row) ==
    [i \in DOMAIN tasks \cup {id} |-> IF i = id THEN row ELSE tasks[i]]

\* create_task whose id may be one already in the table: the INSERT replaces
\* that row.
create_task_anyid(task_type, start_at, ret) ==
    IF start_at.offset /= 0
    THEN /\ ret = [kind |-> "panic", id |-> NoTask]
         /\ UNCHANGED tasks
    ELSE \/ /\ ret.kind = "ok"
            /\ ret.id \in TaskIds
            /\ tasks' = Inserted(ret.id, NewRow(task_type, start_at))
         \/ /\ ret = [kind |-> "err", id |-> NoTask]
            /\ UNCHANGED tasks

\* create_task without the assertion: a non-UTC start_at goes on to the INSERT,
\* which stores its date and time as read in its own offset.
create_task_unasserted(task_type, start_at, ret) ==
    \/ /\ ret.kind = "ok"
       /\ ret.id \in TaskIds \ DOMAIN tasks
       /\ tasks' = Inserted(ret.id, NewRow(task_type, start_at))
    \/ /\ ret = [kind |-> "err", id |-> NoTask]
       /\ UNCHANGED tasks

create_task(task_type, start_at, ret) ==
    IF start_at.offset /= 0
    THEN /\ ret = [kind |-> "panic", id |-> NoTask]
         /\ UNCHANGED tasks
    ELSE \/ /\ ret.kind = "ok"
            /\ ret.id \in TaskIds \ DOMAIN tasks
            /\ tasks' = Inserted(ret.id, NewRow(task_type, start_at))
         \/ /\ ret = [kind |-> "err", id |-> NoTask]
            /\ UNCHANGED tasks

CreateRets == [kind : {"ok"}, id : TaskIds] \cup [kind : {"panic", "err"}, id : {NoTask}]

StartAts == {sa \in [instant : Times, offset : Offsets] : sa.instant + sa.offset \in StartTimes}

CreateTaskCall(task_type, start_at, ret) ==
    /\ create_task(task_type, start_at, ret)
    /\ UNCHANGED <<now, rowLock, pc, tx, result, handlers, handed, calls, statusCall, api>>

CreateTask ==
    \E task_type \in TaskTypes, start_at \in StartAts, ret \in CreateRets :
        CreateTaskCall(task_type, start_at, ret)

\* Repository::show_task(id): the value of Ok(..), computed from the row and the
\* clock at the call. It reads only.
\* show_task whose status looks at worker_assigned_at: a claimed task is no
\* longer WaitingToStart.
show_task_unclaimed(id) ==
    IF id \in DOMAIN tasks
    THEN [kind |-> "Some", id |-> id, task_type |-> tasks[id].task_type,
          status |-> IF tasks[id].worker_assigned_at /= NULL /\ tasks[id].completed_at = NULL
                     THEN "WaitingToComplete"
                     ELSE from_timestamps(tasks[id].start_at, tasks[id].completed_at, now),
          start_at |-> tasks[id].start_at, completed_at |-> tasks[id].completed_at]
    ELSE [kind |-> "None"]

show_task(id) ==
    IF id \in DOMAIN tasks
    THEN [kind |-> "Some", id |-> id, task_type |-> tasks[id].task_type,
          status |-> from_timestamps(tasks[id].start_at, tasks[id].completed_at, now),
          start_at |-> tasks[id].start_at, completed_at |-> tasks[id].completed_at]
    ELSE [kind |-> "None"]

ShowTaskCall(id, ret) ==
    /\ ret \in {show_task(id), [kind |-> "err"]}
    /\ UNCHANGED vars

ShowTask ==
    \E id \in TaskIds, ok \in BOOLEAN :
        ShowTaskCall(id, IF ok THEN show_task(id) ELSE [kind |-> "err"])

\* Repository::complete_task(id): one UPDATE, which waits for the row lock of an
\* open transaction; it updates no row, and still returns Ok, for an unknown id.
\* complete_task that keeps the first timestamp: the UPDATE touches only a row
\* whose completed_at is NULL.
complete_task_first(id, ret) ==
    \/ /\ ret = "ok"
       /\ rowLock[id] = NoOne
       /\ IF id \in DOMAIN tasks
          THEN /\ tasks' = [tasks EXCEPT ![id].completed_at = IF @ = NULL THEN now ELSE @]
               /\ firstCompleteCall' = [firstCompleteCall EXCEPT ![id] = IF @ = NULL THEN now ELSE @]
               /\ lastCompleteCall' = [lastCompleteCall EXCEPT ![id] = now]
          ELSE UNCHANGED <<tasks, calls>>
    \/ /\ ret = "err"
       /\ UNCHANGED <<tasks, calls>>

\* complete_task that also marks an unclaimed row claimed.
complete_task_claiming(id, ret) ==
    \/ /\ ret = "ok"
       /\ rowLock[id] = NoOne
       /\ IF id \in DOMAIN tasks
          THEN /\ tasks' = [tasks EXCEPT ![id].completed_at = now,
                                          ![id].worker_assigned_at = IF @ = NULL THEN now ELSE @]
               /\ firstCompleteCall' = [firstCompleteCall EXCEPT ![id] = IF @ = NULL THEN now ELSE @]
               /\ lastCompleteCall' = [lastCompleteCall EXCEPT ![id] = now]
          ELSE UNCHANGED <<tasks, calls>>
    \/ /\ ret = "err"
       /\ UNCHANGED <<tasks, calls>>

\* complete_task that deletes the completed row instead of stamping it.
complete_task_deleting(id, ret) ==
    \/ /\ ret = "ok"
       /\ rowLock[id] = NoOne
       /\ IF id \in DOMAIN tasks
          THEN /\ tasks' = [i \in DOMAIN tasks \ {id} |-> tasks[i]]
               /\ firstCompleteCall' = [firstCompleteCall EXCEPT ![id] = IF @ = NULL THEN now ELSE @]
               /\ lastCompleteCall' = [lastCompleteCall EXCEPT ![id] = now]
          ELSE UNCHANGED <<tasks, calls>>
    \/ /\ ret = "err"
       /\ UNCHANGED <<tasks, calls>>

complete_task(id, ret) ==
    \/ /\ ret = "ok"
       /\ rowLock[id] = NoOne
       /\ IF id \in DOMAIN tasks
          THEN /\ tasks' = [tasks EXCEPT ![id].completed_at = now]
               /\ firstCompleteCall' = [firstCompleteCall EXCEPT ![id] = IF @ = NULL THEN now ELSE @]
               /\ lastCompleteCall' = [lastCompleteCall EXCEPT ![id] = now]
          ELSE UNCHANGED <<tasks, calls>>
    \/ /\ ret = "err"
       /\ UNCHANGED <<tasks, calls>>

\* complete_task called by any caller of the repository.
CompleteTaskCall(id, ret) ==
    /\ complete_task(id, ret)
    /\ UNCHANGED <<now, rowLock, pc, tx, result, handlers, handed, statusCall, api>>

CompleteTask ==
    \E id \in TaskIds, ret \in {"ok", "err"} : CompleteTaskCall(id, ret)

----------------------------------------------------------------------------
\* Repository::next_worker_task, one action per store step. The transaction's
\* writes and row locks are in tx and rowLock until it ends: Commit writes them
\* to the table, a failed step drops the transaction, which rolls it back.

Released(w) == [i \in TaskIds |-> IF rowLock[i] = w THEN NoOne ELSE rowLock[i]]

\* The call fails at a store step: the transaction (if any) is dropped and rolled
\* back, and the call returns the error. (id: the record the failed call had
\* locked, kept for the record; the error value does not carry it.)
Rollback(w) ==
    /\ rowLock' = Released(w)
    /\ tx' = [tx EXCEPT ![w] = NoTx]
    /\ result' = [result EXCEPT ![w] = [kind |-> "err", id |-> tx[w].rec.id, task_type |-> ""]]
    /\ pc' = [pc EXCEPT ![w] = "ret"]
    /\ UNCHANGED <<tasks, handed>>

\* pool.begin(): the transaction starts; now() is this instant until it ends.
Begin(w) ==
    /\ pc[w] = "poll"
    /\ tx' = [tx EXCEPT ![w] = [now |-> now, cand |-> NoTask, rec |-> NoRecord, updated |-> FALSE]]
    /\ pc' = [pc EXCEPT ![w] = "select"]
    /\ UNCHANGED <<now, tasks, rowLock, result, handlers, handed, calls, statusCall, api>>

BeginErr(w) ==
    /\ pc[w] = "poll"
    /\ Rollback(w)
    /\ UNCHANGED <<now, handlers, calls, statusCall, api>>

\* The SELECT starts: the subquery picks one eligible row of the committed table
\* (LIMIT 1, no ORDER BY: any of them). With no candidate the statement returns
\* no row.
SelectCandidate(w) ==
    /\ pc[w] = "select"
    /\ LET ready == {id \in DOMAIN tasks : Eligible(tasks[id], tx[w].now)} IN
         IF ready = {}
         THEN /\ pc' = [pc EXCEPT ![w] = "commit"]
              /\ UNCHANGED tx
         ELSE \E id \in ready :
                /\ tx' = [tx EXCEPT ![w].cand = id]
                /\ pc' = [pc EXCEPT ![w] = "lock"]
    /\ UNCHANGED <<now, tasks, rowLock, result, handlers, handed, calls, statusCall, api>>

\* LockRow without FOR UPDATE: a plain SELECT returns the candidate as the
\* statement saw it, waiting for no one and locking nothing.
LockRow_unlocked(w) ==
    /\ pc[w] = "lock"
    /\ tx' = [tx EXCEPT ![w].rec = [id |-> tx[w].cand, task_type |-> tasks[tx[w].cand].task_type]]
    /\ pc' = [pc EXCEPT ![w] = "update"]
    /\ UNCHANGED <<now, tasks, rowLock, result, handlers, handed, calls, statusCall, api>>

\* LockRow with no conditions on the outer SELECT: after the wait the candidate
\* is returned whatever another transaction committed to it meanwhile.
LockRow_norecheck(w) ==
    /\ pc[w] = "lock"
    /\ rowLock[tx[w].cand] = NoOne
    /\ rowLock' = [rowLock EXCEPT ![tx[w].cand] = w]
    /\ tx' = [tx EXCEPT ![w].rec = [id |-> tx[w].cand, task_type |-> tasks[tx[w].cand].task_type]]
    /\ pc' = [pc EXCEPT ![w] = "update"]
    /\ UNCHANGED <<now, tasks, result, handlers, handed, calls, statusCall, api>>

\* LockRow whose outer WHERE clause asks for a start_at a tick older than the
\* subquery does: a candidate that started just before the call is turned down.
LockRow_strict(w) ==
    /\ pc[w] = "lock"
    /\ rowLock[tx[w].cand] = NoOne
    /\ rowLock' = [rowLock EXCEPT ![tx[w].cand] = w]
    /\ LET id == tx[w].cand IN
         IF Eligible(tasks[id], tx[w].now - 1)
         THEN /\ tx' = [tx EXCEPT ![w].rec = [id |-> id, task_type |-> tasks[id].task_type]]
              /\ pc' = [pc EXCEPT ![w] = "update"]
         ELSE /\ UNCHANGED tx
              /\ pc' = [pc EXCEPT ![w] = "commit"]
    /\ UNCHANGED <<now, tasks, result, handlers, handed, calls, statusCall, api>>

\* FOR UPDATE on the candidate: waits while another transaction holds the row,
\* then locks it and re-evaluates the outer WHERE clause on the row as committed
\* now; the row is returned only if it still qualifies.
LockRow(w) ==
    /\ pc[w] = "lock"
    /\ rowLock[tx[w].cand] = NoOne
    /\ rowLock' = [rowLock EXCEPT ![tx[w].cand] = w]
    /\ LET id == tx[w].cand IN
         IF Eligible(tasks[id], tx[w].now)
         THEN /\ tx' = [tx EXCEPT ![w].rec = [id |-> id, task_type |-> tasks[id].task_type]]
              /\ pc' = [pc EXCEPT ![w] = "update"]
         ELSE /\ UNCHANGED tx
              /\ pc' = [pc EXCEPT ![w] = "commit"]
    /\ UNCHANGED <<now, tasks, result, handlers, handed, calls, statusCall, api>>

SelectErr(w) ==
    /\ pc[w] \in {"select", "lock"}
    /\ Rollback(w)
    /\ UNCHANGED <<now, handlers, calls, statusCall, api>>

\* UPDATE tasks SET worker_assigned_at = now() WHERE id = record_to_lock.id.
UpdateRow(w) ==
    /\ pc[w] = "update"
    /\ tx' = [tx EXCEPT ![w].updated = TRUE]
    /\ pc' = [pc EXCEPT ![w] = "commit"]
    /\ UNCHANGED <<now, tasks, rowLock, result, handlers, handed, calls, statusCall, api>>

UpdateErr(w) ==
    /\ pc[w] = "update"
    /\ Rollback(w)
    /\ UNCHANGED <<now, handlers, calls, statusCall, api>>

\* Commit that loses the update: the record is returned with worker_assigned_at
\* still unset in the table.
Commit_unwritten(w) ==
    /\ pc[w] = "commit"
    /\ IF tx[w].updated
       THEN /\ result' = [result EXCEPT ![w] =
                    [kind |-> "some", id |-> tx[w].rec.id, task_type |-> tx[w].rec.task_type]]
            /\ handed' = [handed EXCEPT ![tx[w].rec.id] = @ + 1]
       ELSE /\ result' = [result EXCEPT ![w] = [kind |-> "none", id |-> NoTask, task_type |-> ""]]
            /\ UNCHANGED handed
    /\ UNCHANGED tasks
    /\ rowLock' = Released(w)
    /\ tx' = [tx EXCEPT ![w] = NoTx]
    /\ pc' = [pc EXCEPT ![w] = "ret"]
    /\ UNCHANGED <<now, handlers, calls, statusCall, api>>

\* tx.commit() succeeds: the update becomes visible, the locks are released and
\* the call returns the locked record, or None.
Commit(w) ==
    /\ pc[w] = "commit"
    /\ IF tx[w].updated
       THEN /\ tasks' = [tasks EXCEPT ![tx[w].rec.id].worker_assigned_at = tx[w].now]
            /\ result' = [result EXCEPT ![w] =
                    [kind |-> "some", id |-> tx[w].rec.id, task_type |-> tx[w].rec.task_type]]
            /\ handed' = [handed EXCEPT ![tx[w].rec.id] = @ + 1]
       ELSE /\ result' = [result EXCEPT ![w] = [kind |-> "none", id |-> NoTask, task_type |-> ""]]
            /\ UNCHANGED <<tasks, handed>>
    /\ rowLock' = Released(w)
    /\ tx' = [tx EXCEPT ![w] = NoTx]
    /\ pc' = [pc EXCEPT ![w] = "ret"]
    /\ UNCHANGED <<now, handlers, calls, statusCall, api>>

\* CommitErr with the commit's error dropped: the transaction is rolled back and
\* the call still returns the record it had locked, or None.
CommitErr_swallowed(w) ==
    /\ pc[w] = "commit"
    /\ rowLock' = Released(w)
    /\ tx' = [tx EXCEPT ![w] = NoTx]
    /\ result' = [result EXCEPT ![w] =
            IF tx[w].updated
            THEN [kind |-> "some", id |-> tx[w].rec.id, task_type |-> tx[w].rec.task_type]
            ELSE [kind |-> "none", id |-> NoTask, task_type |-> ""]]
    /\ handed' = IF tx[w].updated THEN [handed EXCEPT ![tx[w].rec.id] = @ + 1] ELSE handed
    /\ pc' = [pc EXCEPT ![w] = "ret"]
    /\ UNCHANGED <<now, tasks, handlers, calls, statusCall, api>>

CommitErr(w) ==
    /\ pc[w] = "commit"
    /\ Rollback(w)
    /\ UNCHANGED <<now, handlers, calls, statusCall, api>>

----------------------------------------------------------------------------
\* The worker loop (worker.rs main) around next_worker_task.

\* Err(err): logged, continue.
Retry(w) ==
    /\ pc[w] = "ret"
    /\ result[w].kind = "err"
    /\ pc' = [pc EXCEPT ![w] = "poll"]
    /\ result' = [result EXCEPT ![w] = NoResult]
    /\ UNCHANGED <<now, tasks, rowLock, tx, handlers, handed, calls, statusCall, api>>

\* Dispatch that awaits the spawned task: the loop takes the next task only once
\* the worker's earlier handler, and its complete_task call, have ended.
Dispatch_awaiting(w) ==
    /\ pc[w] = "ret"
    /\ result[w].kind = "some"
    /\ \A h \in handlers : h.worker /= w
    /\ handlers' = handlers \cup
          {[id |-> result[w].id, task_type |-> result[w].task_type, worker |-> w,
            stage |-> "running"]}
    /\ pc' = [pc EXCEPT ![w] = "poll"]
    /\ result' = [result EXCEPT ![w] = NoResult]
    /\ UNCHANGED <<now, tasks, rowLock, tx, handed, calls, statusCall, api>>

\* Some(task_to_run): the handler is spawned and the loop polls again.
Dispatch(w) ==
    /\ pc[w] = "ret"
    /\ result[w].kind = "some"
    /\ handlers' = handlers \cup
          {[id |-> result[w].id, task_type |-> result[w].task_type, worker |-> w,
            stage |-> "running"]}
    /\ pc' = [pc EXCEPT ![w] = "poll"]
    /\ result' = [result EXCEPT ![w] = NoResult]
    /\ UNCHANGED <<now, tasks, rowLock, tx, handed, calls, statusCall, api>>

\* Sleep that leaves the loop: with nothing to claim the worker stops polling.
Sleep_exit(w) ==
    /\ pc[w] = "ret"
    /\ result[w].kind = "none"
    /\ pc' = [pc EXCEPT ![w] = "done"]
    /\ result' = [result EXCEPT ![w] = NoResult]
    /\ UNCHANGED <<now, tasks, rowLock, tx, handlers, handed, calls, statusCall, api>>

\* None: the loop sleeps for a second.
Sleep(w) ==
    /\ pc[w] = "ret"
    /\ result[w].kind = "none"
    /\ pc' = [pc EXCEPT ![w] = "sleep"]
    /\ result' = [result EXCEPT ![w] = NoResult]
    /\ UNCHANGED <<now, tasks, rowLock, tx, handlers, handed, calls, statusCall, api>>

Wake(w) ==
    /\ pc[w] = "sleep"
    /\ pc' = [pc EXCEPT ![w] = "poll"]
    /\ UNCHANGED <<now, tasks, rowLock, tx, result, handlers, handed, calls, statusCall, api>>

\* HandlerReturn without "if completed": complete_task is called whatever the
\* handler returned.
HandlerReturn_unchecked(h) ==
    /\ h \in handlers
    /\ h.stage = "running"
    /\ handlers' = (handlers \ {h}) \cup {[h EXCEPT !.stage = "completing"]}
    /\ UNCHANGED <<now, tasks, rowLock, pc, tx, result, handed, calls, statusCall, api>>

\* HandlerReturn that gives a failed task back: on false, worker_assigned_at is
\* unset again so that the task can be claimed anew.
HandlerReturn_releasing(h) ==
    /\ h \in handlers
    /\ h.stage = "running"
    /\ \E completed \in HandlerOutcomes(h.task_type) :
          IF completed = "true"
          THEN /\ handlers' = (handlers \ {h}) \cup {[h EXCEPT !.stage = "completing"]}
               /\ UNCHANGED tasks
          ELSE /\ handlers' = handlers \ {h}
               /\ tasks' = [tasks EXCEPT ![h.id].worker_assigned_at = NULL]
    /\ UNCHANGED <<now, rowLock, pc, tx, result, handed, calls, statusCall, api>>

\* The spawned task: the handler of the task's type returns its bool. On true
\* the task goes on to complete_task; on false, or on a panic, it ends.
HandlerReturn(h) ==
    /\ h \in handlers
    /\ h.stage = "running"
    /\ \E completed \in HandlerOutcomes(h.task_type) :
          handlers' = IF completed = "true"
                      THEN (handlers \ {h}) \cup {[h EXCEPT !.stage = "completing"]}
                      ELSE handlers \ {h}
    /\ UNCHANGED <<now, tasks, rowLock, pc, tx, result, handed, calls, statusCall, api>>

\* if completed: repository.complete_task(task_to_run.id), Ok or Err, both
\* logged; the spawned task ends.
HandlerComplete(h) ==
    /\ h \in handlers
    /\ h.stage = "completing"
    /\ \E ret \in {"ok", "err"} : complete_task(h.id, ret)
    /\ handlers' = handlers \ {h}
    /\ UNCHANGED <<now, rowLock, pc, tx, result, handed, statusCall, api>>

\* A caller other than the worker loop takes the value next_worker_task returned.
Return(w) ==
    /\ pc[w] = "ret"
    /\ pc' = [pc EXCEPT ![w] = "poll"]
    /\ result' = [result EXCEPT ![w] = NoResult]
    /\ UNCHANGED <<now, tasks, rowLock, tx, handlers, handed, calls, statusCall, api>>

----------------------------------------------------------------------------
HandlerRecords ==
    [id : TaskIds, task_type : TaskTypes, worker : Workers, stage : {"running", "completing"}]

\* A next_worker_task call starts.
CallBegin(w) == Begin(w) \/ BeginErr(w)

\* A next_worker_task call in flight takes a step.
CallStep(w) ==
    \/ SelectCandidate(w) \/ LockRow(w) \/ SelectErr(w)
    \/ UpdateRow(w) \/ UpdateErr(w)
    \/ Commit(w) \/ CommitErr(w)

LoopStep(w) == Retry(w) \/ Dispatch(w) \/ Sleep(w) \/ Wake(w)

HandlerStep(h) == HandlerReturn(h) \/ HandlerComplete(h)

\* The repository under any callers: every interleaving of create_task,
\* show_task, next_worker_task and complete_task calls.
Next ==
    \/ Tick
    \/ CreateTask
    \/ ShowTask
    \/ CompleteTask
    \/ \E w \in Workers : CallBegin(w) \/ CallStep(w) \/ Return(w)

Spec == Init /\ [][Next]_vars

\* The same callers, one call at a time: nothing else touches the store while a
\* next_worker_task call is in flight.
NoCallInFlight == \A w \in Workers : pc[w] \in {"poll", "ret"}

NextSeq ==
    \/ Tick
    \/ NoCallInFlight /\ CreateTask
    \/ NoCallInFlight /\ ShowTask
    \/ NoCallInFlight /\ CompleteTask
    \/ \E w \in Workers : (NoCallInFlight /\ CallBegin(w)) \/ CallStep(w) \/ Return(w)

SpecSeq == Init /\ [][NextSeq]_vars

\* Callers racing for the tasks of a table filled beforehand: any interleaving of
\* next_worker_task and complete_task calls, with create_task called only while
\* no next_worker_task call is in flight.
NextRace ==
    \/ Tick
    \/ NoCallInFlight /\ CreateTask
    \/ CompleteTask
    \/ \E w \in Workers : CallBegin(w) \/ CallStep(w) \/ Return(w)

SpecRace == Init /\ [][NextRace]_vars

\* The system: worker processes running the loop, which alone call
\* complete_task, and the callers of create_task and show_task.
NextWorker ==
    \/ Tick
    \/ CreateTask
    \/ ShowTask
    \/ \E w \in Workers : CallBegin(w) \/ CallStep(w) \/ LoopStep(w)
    \/ \E h \in HandlerRecords : HandlerStep(h)

SpecWorker == Init /\ [][NextWorker]_vars

\* The worker system over time. Tasks of type foo are created with a UTC
\* start_at; a claim call's store failure is taken at its commit (a failure at an
\* earlier step ends in the same rollback and the same Err). Fairness: the clock
\* advances; the runtime keeps every worker's loop and claim call running and
\* ends its sleep; the commit does not fail forever: tried again and again, it
\* succeeds; and the runtime runs every spawned task to its end, its
\* complete_task call returning Ok or Err.
CreateTaskLive ==
    \E task_type \in {"foo"}, instant \in StartTimes, id \in TaskIds :
        CreateTaskCall(task_type, [instant |-> instant, offset |-> 0], [kind |-> "ok", id |-> id])

NextLive ==
    \/ Tick
    \/ CreateTaskLive
    \/ \E w \in Workers :
          \/ Begin(w) \/ SelectCandidate(w) \/ LockRow(w) \/ UpdateRow(w)
          \/ Commit(w) \/ CommitErr(w)
          \/ LoopStep(w)
    \/ \E h \in HandlerRecords : HandlerStep(h)

Fairness ==
    /\ WF_vars(Tick)
    /\ \A w \in Workers :
          /\ WF_vars(LoopStep(w) \/ Begin(w) \/ SelectCandidate(w) \/ LockRow(w) \/ UpdateRow(w))
          /\ SF_vars(Commit(w))
    /\ WF_vars(\E h \in HandlerRecords : HandlerStep(h))

SpecLive == Init /\ [][NextLive]_vars /\ Fairness

----------------------------------------------------------------------------
\* TaskStatus::from_timestamps on its own: any start_at, completed_at and now
\* (the unit tests call it with a completed_at later than now).
MaxStatusTime == 4

StatusTimes == 0 .. MaxStatusTime

InitStatus ==
    /\ now = 0
    /\ tasks = [i \in {} |-> 0]
    /\ rowLock = [i \in TaskIds |-> NoOne]
    /\ pc = [w \in Workers |-> "poll"]
    /\ tx = [w \in Workers |-> NoTx]
    /\ result = [w \in Workers |-> NoResult]
    /\ handlers = {}
    /\ handed = [i \in TaskIds |-> 0]
    /\ firstCompleteCall = [i \in TaskIds |-> NULL]
    /\ lastCompleteCall = [i \in TaskIds |-> NULL]
    /\ statusCall \in [start_at : StatusTimes, completed_at : {NULL} \cup StatusTimes,
                       now : StatusTimes, status : {""}]
    /\ createCall = NoCreateCall
    /\ request = NoRequest

Derive ==
    /\ statusCall.status = ""
    /\ statusCall' = [statusCall EXCEPT !.status =
            from_timestamps(statusCall.start_at, statusCall.completed_at, statusCall.now)]
    /\ UNCHANGED <<now, tasks, rowLock, pc, tx, result, handlers, handed, calls, api>>

NextStatus == Derive

SpecStatus == InitStatus /\ [][NextStatus]_vars

----------------------------------------------------------------------------
\* create_task called directly with any start_at, UTC or not, by a caller that
\* keeps what it passed and what came back (a panic included).
CreateTaskRecorded(task_type, start_at, ret) ==
    /\ create_task(task_type, start_at, ret)
    /\ createCall' = [task_type |-> task_type, start_at |-> start_at, ret |-> ret]
    /\ UNCHANGED <<now, rowLock, pc, tx, result, handlers, handed, calls, statusCall, request>>

CreateTaskDirect ==
    \E task_type \in TaskTypes, start_at \in StartAts, ret \in CreateRets :
        CreateTaskRecorded(task_type, start_at, ret)

NextCore ==
    \/ Tick
    \/ CreateTaskDirect
    \/ CompleteTask

SpecCore == Init /\ [][NextCore]_vars

----------------------------------------------------------------------------
\* The HTTP service (main.rs): POST /tasks.

\* The task types and the start_at values a request may carry: a start_at is an
\* instant with an offset whose date and time, read in that offset, are
\* representable; the instant itself may lie past the last representable time.
RequestTypes == {"foo", "bar", "baz", "qux"}
RequestOffsets == {0 - 1, 0, 1}
RequestStartAts ==
    {sa \in [instant : 0 .. MaxTime + 1, offset : RequestOffsets] : sa.instant + sa.offset \in Times}

\* OffsetDateTime::checked_to_offset(UTC): the same instant at offset 0, or None
\* when its UTC date and time are not representable.
checked_to_offset(start_at) ==
    IF start_at.instant \in Times THEN [instant |-> start_at.instant, offset |-> 0] ELSE None

\* The responses to a request carrying start_at.
Responses(start_at) ==
    [status : {0, 200, 400, 500}, id : TaskIds \cup {NoTask},
     passed : {None, start_at, checked_to_offset(start_at)}]

\* tasks_create passing params.start_at to create_task as it came.
tasks_create_unconverted(task_type, start_at, resp) ==
    IF task_type \notin {"foo", "bar", "baz"}
    THEN /\ resp = [status |-> 400, id |-> NoTask, passed |-> None]
         /\ UNCHANGED tasks
    ELSE \E ret \in CreateRets :
            /\ create_task(task_type, start_at, ret)
            /\ resp = [status |-> CASE ret.kind = "ok" -> 200
                                    [] ret.kind = "err" -> 500
                                    [] OTHER -> 0,
                       id |-> ret.id, passed |-> start_at]

\* tasks_create(params): 400 for a type outside the allow-set or a start_at that
\* does not convert to UTC; else create_task with the converted start_at: its id
\* (200), 500 for a repository error, and no response at all (status 0) if the
\* handler panics. passed: the start_at given to create_task, None if not called.
tasks_create(task_type, start_at, resp) ==
    IF task_type \notin {"foo", "bar", "baz"}
    THEN /\ resp = [status |-> 400, id |-> NoTask, passed |-> None]
         /\ UNCHANGED tasks
    ELSE LET utc == checked_to_offset(start_at) IN
         IF utc = None
         THEN /\ resp = [status |-> 400, id |-> NoTask, passed |-> None]
              /\ UNCHANGED tasks
         ELSE \E ret \in CreateRets :
                 /\ create_task(task_type, utc, ret)
                 /\ resp = [status |-> CASE ret.kind = "ok" -> 200
                                         [] ret.kind = "err" -> 500
                                         [] OTHER -> 0,
                            id |-> ret.id, passed |-> utc]

TasksCreateCall(task_type, start_at, resp) ==
    /\ tasks_create(task_type, start_at, resp)
    /\ request' = [task_type |-> task_type, start_at |-> start_at, passed |-> resp.passed,
                   status |-> resp.status, id |-> resp.id]
    /\ UNCHANGED <<now, rowLock, pc, tx, result, handlers, handed, calls, statusCall, createCall>>

TasksCreate ==
    \E task_type \in RequestTypes, start_at \in RequestStartAts :
        \E resp \in Responses(start_at) : TasksCreateCall(task_type, start_at, resp)

NextHttp ==
    \/ Tick
    \/ TasksCreate

SpecHttp == Init /\ [][NextHttp]_vars

----------------------------------------------------------------------------
\* C1: no task is returned by more than one next_worker_task call, in any
\* interleaving of the callers' transaction steps: each id is handed out at most
\* once, and two callers never hold the same returned task.
C1_ClaimedAtMostOnce ==
    /\ \A id \in TaskIds : handed[id] <= 1
    /\ \A w1, w2 \in Workers :
          (w1 /= w2 /\ result[w1].kind = "some" /\ result[w2].kind = "some")
              => result[w1].id /= result[w2].id

\* Two callers raced for one row: one was returned it, the other picked the same
\* candidate, waited for the lock and found it taken.
C1_Witness ==
    \E w1, w2 \in Workers :
        /\ w1 /= w2
        /\ result[w1].kind = "some"
        /\ handed[result[w1].id] = 1
        /\ pc[w2] = "commit"
        /\ tx[w2].cand = result[w1].id
        /\ tx[w2].rec = NoRecord

\* C2: from_timestamps returns one of the three statuses: Completed whenever
\* completed_at is present, else WaitingToStart exactly when start_at < now, else
\* WaitingToComplete (also when start_at = now).
C2_StatusTable ==
    statusCall.status /= "" =>
        /\ statusCall.status \in {"WaitingToStart", "WaitingToComplete", "Completed"}
        /\ (statusCall.status = "Completed") <=> (statusCall.completed_at /= NULL)
        /\ (statusCall.status = "WaitingToStart") <=>
              (statusCall.completed_at = NULL /\ statusCall.start_at < statusCall.now)
        /\ (statusCall.status = "WaitingToComplete") <=>
              (statusCall.completed_at = NULL /\ statusCall.start_at >= statusCall.now)

\* The boundary: start_at = now, not completed, derived as WaitingToComplete.
C2_Witness ==
    /\ statusCall.status = "WaitingToComplete"
    /\ statusCall.completed_at = NULL
    /\ statusCall.start_at = statusCall.now

\* A next_worker_task call of w returns a value other than an error in this step.
Returns(w) == pc[w] = "commit" /\ pc'[w] = "ret" /\ result'[w].kind /= "err"

Unclaimed == {id \in DOMAIN tasks : tasks[id].worker_assigned_at = NULL}

\* C3: with one call at a time, a successful next_worker_task call on a store
\* whose only unclaimed task t has start_at in the past and is not completed
\* returns t and marks it claimed; a successful call on a store with no unclaimed
\* task (as after that first call) returns None.
C3_FirstThenNone ==
    [][\A w \in Workers : Returns(w) =>
          /\ \A t \in TaskIds :
                (Unclaimed = {t} /\ tasks[t].start_at < tx[w].now /\ tasks[t].completed_at = NULL)
                    => /\ result'[w].kind = "some"
                       /\ result'[w].id = t
                       /\ tasks'[t].worker_assigned_at /= NULL
          /\ Unclaimed = {} => result'[w].kind = "none"]_vars

\* The only task was returned by an earlier call, and the call after it returned
\* None.
C3_Witness ==
    \E w \in Workers, t \in TaskIds :
        /\ DOMAIN tasks = {t}
        /\ handed[t] = 1
        /\ tasks[t].worker_assigned_at /= NULL
        /\ tasks[t].completed_at = NULL
        /\ pc[w] = "ret"
        /\ result[w].kind = "none"
        /\ \A v \in Workers \ {w} : pc[v] = "poll"

\* C4: a claim never takes a task whose start_at has not passed at the claim's
\* time: the candidate, the locked record and every worker_assigned_at are
\* strictly later than the task's start_at (start_at = now is not claimable);
\* and a task whose start_at has passed is claimable: the SELECT finds no
\* candidate only when no row is ready.
C4_ClaimOnlyAfterStart ==
    /\ [](\A id \in DOMAIN tasks :
            tasks[id].worker_assigned_at /= NULL => tasks[id].start_at < tasks[id].worker_assigned_at)
    /\ [](\A w \in Workers :
            /\ tx[w].cand /= NoTask => tasks[tx[w].cand].start_at < tx[w].now
            /\ result[w].kind = "some" =>
                  tasks[result[w].id].start_at < tasks[result[w].id].worker_assigned_at)
    /\ [][\A w \in Workers :
            (pc[w] = "select" /\ pc'[w] = "commit") =>
                ~ \E id \in DOMAIN tasks :
                    /\ tasks[id].start_at < tx[w].now
                    /\ tasks[id].completed_at = NULL
                    /\ tasks[id].worker_assigned_at = NULL]_vars

\* A call found nothing to claim while a task starting at the call's time waits
\* unclaimed, and a task that started earlier has been claimed.
C4_Witness ==
    \E w \in Workers, t1, t2 \in TaskIds :
        /\ pc[w] = "commit"
        /\ tx[w].cand = NoTask
        /\ t1 \in DOMAIN tasks
        /\ tasks[t1].start_at = tx[w].now
        /\ tasks[t1].completed_at = NULL
        /\ tasks[t1].worker_assigned_at = NULL
        /\ t2 \in DOMAIN tasks
        /\ tasks[t2].worker_assigned_at /= NULL
        /\ tasks[t2].start_at < tasks[t2].worker_assigned_at

\* C5: a next_worker_task call that fails at any store step (begin, select,
\* update, commit) returns the error, never None or a task; the call that
\* returns an error has committed nothing: the table is as before and the call
\* holds no row lock, so the task it had selected is still unclaimed; a task is
\* returned only with its claim committed; and the worker loop goes on from an
\* error to poll again, dispatching nothing.
C5_FailedClaim ==
    /\ [][\A w \in Workers :
            (BeginErr(w) \/ SelectErr(w) \/ UpdateErr(w) \/ CommitErr(w))
                => (pc'[w] = "ret" /\ result'[w].kind = "err")]_vars
    /\ [][\A w \in Workers :
            (pc[w] /= "ret" /\ pc'[w] = "ret" /\ result'[w].kind = "err")
                => /\ tasks' = tasks
                   /\ handed' = handed
                   /\ \A id \in TaskIds : rowLock'[id] /= w
                   /\ result'[w].id /= NoTask => tasks'[result'[w].id].worker_assigned_at = NULL]_vars
    /\ [](\A w \in Workers :
            result[w].kind = "some" => tasks[result[w].id].worker_assigned_at /= NULL)
    /\ [][\A w \in Workers :
            (pc[w] = "ret" /\ result[w].kind = "err" /\ pc'[w] /= pc[w])
                => (pc'[w] = "poll" /\ handlers' = handlers)]_vars
    /\ [](\A w \in Workers :
            (pc[w] = "ret" /\ result[w].kind = "err") => ENABLED Retry(w))

\* A call that had locked task t failed and returned the error; t is unclaimed
\* and another worker's call has locked it since.
C5_Witness ==
    \E w, v \in Workers, t \in TaskIds :
        /\ w /= v
        /\ pc[w] = "ret"
        /\ result[w].kind = "err"
        /\ result[w].id = t
        /\ tasks[t].worker_assigned_at = NULL
        /\ pc[v] = "update"
        /\ tx[v].rec.id = t
        /\ rowLock[t] = v

\* C6: completed_at of a task is the time of the latest complete_task call that
\* updated it, whatever it held before: a second call overwrites the first
\* call's timestamp; and the call succeeds on a row of any state, claimed or
\* not, completed or not.
C6_LastCompleteWins ==
    \A id \in DOMAIN tasks :
        /\ lastCompleteCall[id] /= NULL => tasks[id].completed_at = lastCompleteCall[id]
        /\ rowLock[id] = NoOne => ENABLED CompleteTaskCall(id, "ok")

\* A task never claimed and a claimed task were each completed twice, at two
\* times: completed_at is the second.
C6_Witness ==
    \E id1, id2 \in DOMAIN tasks :
        /\ tasks[id1].worker_assigned_at = NULL
        /\ tasks[id2].worker_assigned_at /= NULL
        /\ \A id \in {id1, id2} :
              /\ firstCompleteCall[id] /= NULL
              /\ firstCompleteCall[id] < lastCompleteCall[id]
              /\ tasks[id].completed_at = lastCompleteCall[id]

\* C7: worker_assigned_at is written at most once: a set worker_assigned_at
\* keeps its value in every step of any caller, and a call returns a task (which
\* is when the write commits) only if its worker_assigned_at was unset.
C7_AssignedOnce ==
    [][\A id \in DOMAIN tasks :
          /\ tasks[id].worker_assigned_at /= NULL =>
                (id \in DOMAIN tasks' /\ tasks'[id].worker_assigned_at = tasks[id].worker_assigned_at)
          /\ handed'[id] /= handed[id] =>
                (tasks[id].worker_assigned_at = NULL /\ tasks'[id].worker_assigned_at /= NULL)]_vars

\* A claimed task was completed afterwards, and a call that had picked it as its
\* candidate found it taken.
C7_Witness ==
    \E w \in Workers, id \in DOMAIN tasks :
        /\ tasks[id].worker_assigned_at /= NULL
        /\ tasks[id].completed_at /= NULL
        /\ pc[w] = "commit"
        /\ tx[w].cand = id
        /\ tx[w].rec = NoRecord

\* C8: with complete_task called by the worker loops only, completed_at is set
\* at most once per task: a set completed_at keeps its value in every step; it
\* changes only in the complete_task call of a spawned task whose handler
\* returned true, for a task of a type whose handler can return true; and every
\* such call finds completed_at unset.
C8_CompletedOnce ==
    [][\A id \in DOMAIN tasks :
          /\ tasks[id].completed_at /= NULL => tasks'[id].completed_at = tasks[id].completed_at
          /\ tasks'[id].completed_at /= tasks[id].completed_at =>
                /\ "true" \in HandlerOutcomes(tasks[id].task_type)
                /\ \E h \in handlers \ handlers' : h.id = id /\ h.stage = "completing"
          /\ \A h \in handlers \ handlers' :
                (h.id = id /\ h.stage = "completing") => tasks[id].completed_at = NULL]_vars

\* One task was claimed and completed later, its spawned task gone; another, of
\* type baz, was claimed and its handler failed: it is not completed.
C8_Witness ==
    \E id1, id2 \in DOMAIN tasks :
        /\ tasks[id1].worker_assigned_at /= NULL
        /\ tasks[id1].completed_at /= NULL
        /\ tasks[id1].worker_assigned_at < tasks[id1].completed_at
        /\ tasks[id2].task_type = "baz"
        /\ tasks[id2].worker_assigned_at /= NULL
        /\ tasks[id2].completed_at = NULL
        /\ handlers = {}

\* C9: with complete_task called by the worker loops only, a completed task is a
\* claimed task: completed_at set implies worker_assigned_at set, and not later
\* than completed_at.
C9_CompletedImpliesClaimed ==
    \A id \in DOMAIN tasks :
        tasks[id].completed_at /= NULL =>
            /\ tasks[id].worker_assigned_at /= NULL
            /\ tasks[id].worker_assigned_at <= tasks[id].completed_at

\* A claimed task has been completed while another ready task is still
\* unclaimed and not completed.
C9_Witness ==
    \E id1, id2 \in DOMAIN tasks :
        /\ tasks[id1].completed_at /= NULL
        /\ tasks[id1].worker_assigned_at /= NULL
        /\ tasks[id2].start_at < now
        /\ tasks[id2].worker_assigned_at = NULL
        /\ tasks[id2].completed_at = NULL

\* C10: a successful create_task(task_type, start_at) with a UTC start_at adds
\* exactly one row, under an id no row had, holding task_type and start_at as
\* given and completed_at and worker_assigned_at unset; it returns that id and
\* leaves every other row as it was. (A create_task step is a step that changes
\* the table and nothing of the workers or of the complete_task calls.)
C10_CreateAddsOneRow ==
    [][(tasks' /= tasks /\ pc' = pc /\ calls' = calls) =>
          \A ret \in CreateRets, task_type \in TaskTypes, start_at \in StartAts :
              (ret.kind = "ok" /\ start_at.offset = 0 /\ CreateTaskCall(task_type, start_at, ret)) =>
                  /\ ret.id \notin DOMAIN tasks
                  /\ DOMAIN tasks' = DOMAIN tasks \cup {ret.id}
                  /\ tasks'[ret.id].task_type = task_type
                  /\ tasks'[ret.id].start_at = start_at.instant
                  /\ tasks'[ret.id].completed_at = NULL
                  /\ tasks'[ret.id].worker_assigned_at = NULL
                  /\ \A id \in DOMAIN tasks : tasks'[id] = tasks[id]]_vars

\* A row as created, beside a row of another type that has been claimed and
\* completed.
C10_Witness ==
    \E id1, id2 \in DOMAIN tasks :
        /\ tasks[id1].worker_assigned_at /= NULL
        /\ tasks[id1].completed_at /= NULL
        /\ tasks[id2].task_type /= tasks[id1].task_type
        /\ tasks[id2].start_at = MaxTime - 1
        /\ tasks[id2].worker_assigned_at = NULL
        /\ tasks[id2].completed_at = NULL

----------------------------------------------------------------------------
\* C11: create_task called with a start_at whose offset is not UTC fails (the
\* assertion panics) before the INSERT: the table is unchanged; and every row
\* added to the table holds, as start_at, the instant of a UTC start_at.
C11_NonUtcRejected ==
    [][createCall' /= createCall =>
          /\ createCall'.start_at.offset /= 0 =>
                (createCall'.ret.kind = "panic" /\ tasks' = tasks)
          /\ \A id \in DOMAIN tasks' \ DOMAIN tasks :
                /\ createCall'.start_at.offset = 0
                /\ createCall'.ret = [kind |-> "ok", id |-> id]
                /\ tasks'[id].start_at = createCall'.start_at.instant]_vars

\* A call with a non-UTC start_at panicked, on a table that holds a row created
\* earlier from a UTC start_at.
C11_Witness ==
    /\ createCall.start_at.offset = 1
    /\ createCall.ret.kind = "panic"
    /\ \E id \in DOMAIN tasks : tasks[id].start_at = createCall.start_at.instant + 1

\* C12: a POST /tasks request with a task type outside {foo, bar, baz}, or with a
\* start_at whose UTC instant is not representable, gets 400, create_task is not
\* called and no row is added; every start_at given to create_task has offset
\* UTC, so the request ends in a response (200 or 500), never in the assertion's
\* panic; and a row is added only with a 200.
C12_BoundaryRejects ==
    [][request' /= request =>
          /\ (request'.task_type \notin {"foo", "bar", "baz"} \/ request'.start_at.instant > MaxTime) =>
                /\ request'.status = 400
                /\ request'.passed = None
                /\ tasks' = tasks
          /\ request'.passed /= None =>
                /\ request'.passed.offset = 0
                /\ request'.passed.instant = request'.start_at.instant
                /\ request'.status \in {200, 500}
          /\ tasks' /= tasks => request'.status = 200]_vars

\* A request of a supported type with an unconvertible start_at got 400, on a
\* table holding a row of type bar created by an earlier request.
C12_Witness ==
    /\ request.task_type = "foo"
    /\ request.start_at.instant > MaxTime
    /\ request.status = 400
    /\ \E id \in DOMAIN tasks : tasks[id].task_type = "bar"

\* The rows that qualify for a claim at time t, as committed.
Ready(t) == {id \in DOMAIN tasks : Eligible(tasks[id], t)}

\* C13, as stated: a claim call that succeeds returns None only if no row
\* qualifies when it finishes: a caller whose candidate another caller locked and
\* claimed never receives None while a different ready row exists.
C13_NoneOnlyIfNothingReady ==
    [][\A w \in Workers :
          (/\ Returns(w)
           /\ result'[w].kind = "none"
           /\ tx[w].cand /= NoTask
           /\ tasks[tx[w].cand].worker_assigned_at /= NULL) =>
              ~ \E id \in DOMAIN tasks' :
                    /\ id /= tx[w].cand
                    /\ tasks'[id].start_at < tx[w].now
                    /\ tasks'[id].completed_at = NULL
                    /\ tasks'[id].worker_assigned_at = NULL]_vars

\* C13, amended: a claim call that succeeds returns None exactly when no row
\* qualified for its SELECT or the one candidate the SELECT picked no longer
\* qualifies once the call holds its row lock (another caller claimed or
\* completed it meanwhile), whatever other ready rows exist; a call whose
\* candidate's row is free is never kept waiting by locks on other rows.
C13_NoneOnlyIfCandidateLost ==
    /\ [][\A w \in Workers :
            Returns(w) =>
                ((result'[w].kind = "none") <=>
                    \/ tx[w].cand = NoTask /\ Ready(tx[w].now) = {}
                    \/ tx[w].cand /= NoTask /\ tx[w].cand \notin Ready(tx[w].now))]_vars
    /\ [](\A w \in Workers :
            (pc[w] = "lock" /\ rowLock[tx[w].cand] = NoOne) => ENABLED LockRow(w))

\* Two calls picked the same candidate; one claimed it, the other waited for the
\* lock, found the row claimed and is about to return None while a different row
\* that was ready all along is unclaimed and unlocked.
C13_Witness ==
    \E w \in Workers, t1, t2 \in DOMAIN tasks :
        /\ pc[w] = "commit"
        /\ tx[w].cand = t1
        /\ tx[w].rec = NoRecord
        /\ tasks[t1].worker_assigned_at /= NULL
        /\ t2 /= t1
        /\ tasks[t2].start_at < tx[w].now
        /\ tasks[t2].completed_at = NULL
        /\ tasks[t2].worker_assigned_at = NULL
        /\ rowLock[t2] = NoOne

\* C14, as stated: whenever show_task reports WaitingToStart for a task, the
\* task is not yet claimed: its worker_assigned_at is unset at the read.
C14_WaitingToStartUnclaimed ==
    \A id \in DOMAIN tasks :
        show_task(id).status = "WaitingToStart" => tasks[id].worker_assigned_at = NULL

\* C14, amended: whenever show_task reports WaitingToStart for a task, its
\* start_at is before the time of the read and it is not completed; it may be
\* claimed or not: a claimed task shows WaitingToStart until it is completed.
C14_WaitingToStartMeansStarted ==
    \A id \in DOMAIN tasks :
        /\ show_task(id).status = "WaitingToStart" =>
              (tasks[id].start_at < now /\ tasks[id].completed_at = NULL)
        /\ (tasks[id].worker_assigned_at /= NULL /\ tasks[id].completed_at = NULL) =>
              (show_task(id).status = "WaitingToStart" /\ ENABLED ShowTaskCall(id, show_task(id)))

\* show_task reports WaitingToStart for a task claimed at an earlier time and for
\* a ready task that no one has claimed.
C14_Witness ==
    \E id1, id2 \in DOMAIN tasks :
        /\ show_task(id1).status = "WaitingToStart"
        /\ tasks[id1].worker_assigned_at /= NULL
        /\ tasks[id1].worker_assigned_at < now
        /\ show_task(id2).status = "WaitingToStart"
        /\ tasks[id2].worker_assigned_at = NULL

\* The order of the statuses.
Rank(status) ==
    CASE status = "WaitingToComplete" -> 0
      [] status = "WaitingToStart" -> 1
      [] status = "Completed" -> 2

\* C15: in every step of any interleaving of repository operations and clock
\* ticks (the steps that change the clock or the table), the status show_task
\* reports for a task does not move backward in the
\* order WaitingToComplete, WaitingToStart, Completed; so successive show_task
\* calls never see it move backward: Completed is terminal and WaitingToStart is
\* never followed by WaitingToComplete.
C15_StatusMonotonic ==
    [][(now' /= now \/ tasks' /= tasks) =>
          \A id \in DOMAIN tasks :
              /\ id \in DOMAIN tasks'
              /\ LET before == show_task(id).status
                     after == show_task(id).status'
                 IN  /\ Rank(before) <= Rank(after)
                     /\ before = "Completed" => after = "Completed"
                     /\ before = "WaitingToStart" => after /= "WaitingToComplete"]_vars

\* A task went through the three statuses: it started at one time, was completed
\* at a later one, and time has passed since; another task is still waiting for
\* its start_at.
C15_Witness ==
    \E id1, id2 \in DOMAIN tasks :
        /\ show_task(id1).status = "Completed"
        /\ tasks[id1].start_at < tasks[id1].completed_at
        /\ tasks[id1].completed_at < now
        /\ show_task(id2).status = "WaitingToStart"
        /\ tasks[id2].start_at = now - 1

\* The handler of task id has reported failure: the task is of a type whose
\* handler returns false or that has no handler, a claim call returned it, the
\* worker took it and its spawned task has ended.
HandlerFailed(id) ==
    /\ id \in DOMAIN tasks
    /\ tasks[id].task_type \in {"baz", "qux"}
    /\ handed[id] >= 1
    /\ \A h \in handlers : h.id /= id
    /\ \A w \in Workers : ~ (result[w].kind = "some" /\ result[w].id = id)

\* C16: in the worker-loop system, a claimed task whose handler reported failure
\* (type baz, or a type with no handler) stays claimed forever: it is claimed and
\* not completed, no claim call can select it or has returned it a second time,
\* its shown status is not Completed, and every step leaves it so.
C16_FailedStaysClaimed ==
    /\ [](\A id \in TaskIds :
            HandlerFailed(id) =>
                /\ tasks[id].worker_assigned_at /= NULL
                /\ tasks[id].completed_at = NULL
                /\ handed[id] = 1
                /\ show_task(id).status = "WaitingToStart"
                /\ \A t \in Times : id \notin Ready(t)
                /\ \A w \in Workers : tx[w].rec.id /= id)
    /\ [][\A id \in TaskIds :
            HandlerFailed(id) => (HandlerFailed(id)' /\ tasks'[id] = tasks[id])]_vars

\* A task of a type with no handler was claimed at an earlier time and its
\* spawned task has ended, while a task claimed by the same system has been
\* completed.
C16_Witness ==
    \E id1, id2 \in DOMAIN tasks :
        /\ HandlerFailed(id1)
        /\ tasks[id1].task_type = "qux"
        /\ tasks[id1].worker_assigned_at < now
        /\ tasks[id1].completed_at = NULL
        /\ tasks[id2].completed_at /= NULL

\* C17: the worker loop never waits for a handler: with a task returned, the
\* loop can dispatch it whatever handlers are running, and dispatching spawns the
\* handler and takes the loop straight to its next claim call, which can begin
\* whatever handlers are running; the loop goes to sleep only from a claim call
\* that returned None.
C17_LoopNeverWaits ==
    /\ [](\A w \in Workers :
            /\ (pc[w] = "ret" /\ result[w].kind = "some") => ENABLED Dispatch(w)
            /\ pc[w] = "poll" => ENABLED Begin(w))
    /\ [][\A w \in Workers :
            /\ (pc[w] = "ret" /\ result[w].kind = "some" /\ pc'[w] /= pc[w]) =>
                  /\ pc'[w] = "poll"
                  /\ \E h \in handlers' :
                        h.id = result[w].id /\ h.worker = w /\ h.stage = "running"
            /\ (pc'[w] = "sleep" /\ pc[w] /= "sleep") =>
                  (pc[w] = "ret" /\ result[w].kind = "none")]_vars

\* One worker has two spawned tasks in flight, for two claimed tasks neither of
\* which is completed, and is in its next claim call.
C17_Witness ==
    \E w \in Workers, h1, h2 \in handlers :
        /\ h1.worker = w
        /\ h2.worker = w
        /\ h1.id /= h2.id
        /\ tasks[h1.id].completed_at = NULL
        /\ tasks[h2.id].completed_at = NULL
        /\ pc[w] = "select"

\* C18: in every step of any interleaving of repository operations, every row
\* stays in the table with its id, task_type and start_at as they were: the set
\* of ids only grows, and a step that adds an id is a create_task call.
C18_RowsKept ==
    [][tasks' /= tasks =>
          /\ \A id \in DOMAIN tasks :
                /\ id \in DOMAIN tasks'
                /\ tasks'[id].task_type = tasks[id].task_type
                /\ tasks'[id].start_at = tasks[id].start_at
          /\ DOMAIN tasks' /= DOMAIN tasks =>
                \E task_type \in TaskTypes, start_at \in StartAts, ret \in CreateRets :
                    /\ ret.kind = "ok"
                    /\ CreateTaskCall(task_type, start_at, ret)]_vars

\* The table is full; one task was completed without ever being claimed, the
\* other was claimed and then completed, and both are still there.
C18_Witness ==
    \E id1, id2 \in DOMAIN tasks :
        /\ DOMAIN tasks = TaskIds
        /\ tasks[id1].worker_assigned_at = NULL
        /\ tasks[id1].completed_at /= NULL
        /\ tasks[id2].worker_assigned_at /= NULL
        /\ tasks[id2].completed_at /= NULL

\* C19: show_task changes nothing; no step of a next_worker_task call changes the
\* table except the commit that returns a task t, which sets t's
\* worker_assigned_at, unset until then, to the call's time and nothing else; a
\* call that returns None or an error has changed no row; complete_task(id)
\* changes only the completed_at of row id, and for an id with no row it succeeds
\* and changes nothing.
C19_Frames ==
    /\ [](\A id \in TaskIds :
            /\ ENABLED ShowTaskCall(id, show_task(id))
            /\ ~ ENABLED (ShowTaskCall(id, show_task(id)) /\ vars' /= vars)
            /\ id \notin DOMAIN tasks =>
                  /\ ENABLED CompleteTaskCall(id, "ok")
                  /\ ~ ENABLED (CompleteTaskCall(id, "ok") /\ tasks' /= tasks))
    /\ [][\A w \in Workers :
            pc'[w] /= pc[w] =>
                IF pc[w] = "commit" /\ result'[w].kind = "some"
                THEN LET t == result'[w].id IN
                       /\ tasks[t].worker_assigned_at = NULL
                       /\ tasks' = [tasks EXCEPT ![t].worker_assigned_at = tx[w].now]
                ELSE tasks' = tasks]_vars
    /\ [][(tasks' /= tasks /\ pc' = pc /\ DOMAIN tasks' = DOMAIN tasks) =>
            \E id \in DOMAIN tasks :
                /\ CompleteTaskCall(id, "ok")
                /\ tasks' = [tasks EXCEPT ![id].completed_at = now]]_vars

\* One call returned a task, now claimed and not completed; another returned
\* None; and a complete_task call has completed a row no one had claimed.
C19_Witness ==
    \E w, v \in Workers, t1, t2 \in DOMAIN tasks :
        /\ pc[w] = "ret"
        /\ result[w].kind = "some"
        /\ result[w].id = t1
        /\ tasks[t1].worker_assigned_at /= NULL
        /\ tasks[t1].completed_at = NULL
        /\ pc[v] = "ret"
        /\ result[v].kind = "none"
        /\ tasks[t2].worker_assigned_at = NULL
        /\ tasks[t2].completed_at /= NULL

\* Task id has been claimed, after its start_at; it is completed; its handler has
\* returned true and its spawned task is about to call complete_task.
Claimed(id) ==
    /\ id \in DOMAIN tasks
    /\ tasks[id].worker_assigned_at /= NULL
    /\ tasks[id].start_at < tasks[id].worker_assigned_at

Completed(id) == id \in DOMAIN tasks /\ tasks[id].completed_at /= NULL

HandlerSucceeded(id) == \E h \in handlers : h.id = id /\ h.stage = "completing"

\* The complete_task call of task id's spawned task has failed: the task was
\* claimed and handed to a worker, its spawned task has ended and it is not
\* completed.
CompleteFailed(id) ==
    /\ Claimed(id)
    /\ tasks[id].completed_at = NULL
    /\ \A h \in handlers : h.id /= id
    /\ \A w \in Workers : ~ (result[w].kind = "some" /\ result[w].id = id)

====
